---- MODULE Spec2Model ----
(***************************************************************************)
(* Model of the gym-electric-motor core covered by the specification:      *)
(*   - the StateActionProcessor decorator chain around a physical system,  *)
(*   - the StepReferenceGenerator (episode-segmented square wave),         *)
(*   - the reset/step protocol of the environment with limit constraints.  *)
(* Real quantities are exact rationals in fixed units (see the scales).    *)
(***************************************************************************)
EXTENDS Integers, Sequences, FiniteSets, TLC

(***************************************************************************)
(* Values shared by all parts.                                             *)
(***************************************************************************)
None == "None"
AttributeError == "AttributeError"
Ok == "ok"

(***************************************************************************)
(* PART 1 - the processor chain (state_action_processor.py).               *)
(***************************************************************************)

\* Number of StateActionProcessor objects the model constructs.
NumStages == 2
\* next_generator may be called this often per stage (caps the spawn counter).
MaxSpawn == 2
\* Seeds 1..NumSeeds are passed to seed().
NumSeeds == 2

\* Stage objects, innermost-capable first; a stage wraps a physical system or
\* a stage that was constructed before it.
StageIds == <<"stage1", "stage2", "stage3", "stage4">>
Stages == {StageIds[i] : i \in 1..NumStages}
StageIndex(s) == CHOOSE i \in 1..NumStages : StageIds[i] = s
Seeds == 1..NumSeeds

\* The physical systems built by the environments of the repository.
PhysicalSystems == {"DcMotorSystem", "SquirrelCageInductionMotorSystem"}
Layers == Stages \cup PhysicalSystems

\* Physical systems that are RandomComponents (isinstance check of seed()).
RandomPhysicalSystems == {"DcMotorSystem"}

\* Documented properties of the two physical systems.
PsActionSpace(p) == IF p = "DcMotorSystem" THEN "Discrete(4)" ELSE "Box(3)"
PsStateSpace(p) == IF p = "DcMotorSystem" THEN "Box(5)" ELSE "Box(14)"
PsStateNames(p) ==
    IF p = "DcMotorSystem"
    THEN <<"omega", "torque", "i", "u", "u_sup">>
    ELSE <<"omega", "torque", "i_sa", "i_sb", "i_sc", "i_sd", "i_sq",
           "u_sa", "u_sb", "u_sc", "u_sd", "u_sq", "epsilon", "u_sup">>
PsTau(p) == IF p = "DcMotorSystem" THEN "1e-5" ELSE "1e-4"
PsLimits(p) == IF p = "DcMotorSystem" THEN "limits(dc)" ELSE "limits(scim)"
PsNominalState(p) ==
    IF p = "DcMotorSystem" THEN "nominal(dc)" ELSE "nominal(scim)"
\* Python's None in a field that otherwise holds a tuple of names.
NoNames == <<None>>

\* Spaces a caller assigns through the action_space / state_space setters.
SpaceValues == {"Discrete(8)", None}

\* Attribute names looked up on a stage (__getattr__ and class attributes).
AttrNames == {"physical_system", "unwrapped", "supply", "undefined_attr"}
\* Attributes the class StateActionProcessor defines itself.
StageAttrs == {"physical_system", "unwrapped"}
\* Attributes a physical system object defines.
PsAttrs == {"unwrapped", "supply"}

\* Actions in units of 1/8 (8 is the action [1.0]).
ActionValues == {0, 8}
\* States a physical system returns from simulate (normalized, in halves).
PsStateValues == {0, 1}

\* The physical systems may be this many steps past their last reset, all of
\* them taken together (caps the step counters).
MaxSimSteps == 1

\* Stages with an even index are scenario-2 stages (they halve the action);
\* the others are plain StateActionProcessor objects.
HalvingStages == {StageIds[i] : i \in {j \in 1..NumStages : j % 2 = 0}}

VARIABLES
    \* fields of each StateActionProcessor
    _physical_system, _action_space, _state_space, _limits, _nominal_state,
    _state_names, _state_positions, _tau,
    \* RandomComponent part of each stage
    _seed_sequence, _random_generator,
    \* the step counter _k of every layer (PhysicalSystem part of a stage, and
    \* the physical systems themselves); the time of a layer is _k * tau
    layer_k,
    \* the calls of the last operation in order, the caller's call first, each
    \* <<method, layer, argument>>; and what the operation returned
    events, result

chainVars == <<_physical_system, _action_space, _state_space, _limits,
               _nominal_state, _state_names, _state_positions, _tau,
               _seed_sequence, _random_generator, layer_k, events, result>>

VARIABLES
    \* the generator is bound to a physical system (set_modules was called)
    rg_bound,
    \* fields of StepReferenceGenerator
    _amplitude_range, _frequency_range, _offset_range, _limit_margin,
    _amplitude, _frequency, _offset, _reference,
    \* fields of SubepisodedReferenceGenerator
    _current_episode_length, _k, _reference_value,
    \* the values the random generator returned in the last segment
    \* generation, in order, each <<what, value>>
    draws,
    \* the last operation of the generator and the value it returned
    rg_call, rg_result

refVars == <<rg_bound, _amplitude_range, _frequency_range, _offset_range,
             _limit_margin, _amplitude, _frequency, _offset, _reference,
             _current_episode_length, _k, _reference_value, draws,
             rg_call, rg_result>>

VARIABLES
    \* the environment class, and whether an episode is running
    env_kind, env_phase,
    \* the normalized state the physical system returned last
    env_state,
    \* the steps of the current episode, each <<state, terminated>>
    env_episode,
    \* what the last reset() or step() handed to the caller
    env_result,
    \* the last call, <<"reset", 0>> or <<"step", action>>
    env_call,
    \* the step counter of the physical system (time = env_k * tau), the
    \* step index of the reference, and the number of times the random
    \* generators of the environment were rotated
    env_k, env_ref_k, env_generator

envVars == <<env_kind, env_phase, env_state, env_episode, env_result,
             env_call, env_k, env_ref_k, env_generator>>

VARIABLES
    \* the environment class constructed last (None before the first one)
    made_env,
    \* the component specifications its constructor was called with, by role
    env_args,
    \* the components the constructor built, by role
    components

buildVars == <<made_env, env_args, components>>

----------------------------------------------------------------------------
\* Variant of StatePositions that counts the positions from 1.
StatePositions_one_based(names) ==
    [key \in {names[i] : i \in 1..Len(names)} |->
        CHOOSE i \in 1..Len(names) : names[i] = key]

\* enumerate(names) as a dict key -> index (0-based, as in Python).
StatePositions(names) ==
    [key \in {names[i] : i \in 1..Len(names)} |->
        (CHOOSE i \in 1..Len(names) : names[i] = key) - 1]

\* The layers reached from l by following _physical_system, l first.
RECURSIVE Path(_)
Path(l) ==
    IF l = None THEN <<>>
    ELSE IF l \in PhysicalSystems THEN <<l>>
    ELSE <<l>> \o Path(_physical_system[l])

\* The physical system at the end of the chain below l, or None.
Innermost(l) ==
    LET p == Path(l) IN
    IF p # <<>> /\ p[Len(p)] \in PhysicalSystems THEN p[Len(p)] ELSE None

StagesOf(l) == {Path(l)[i] : i \in 1..Len(Path(l))} \cap Stages

\* Property getters (lines 12-63). A physical system returns its own value;
\* None has no attributes.
RECURSIVE action_space(_)
action_space(l) ==
    IF l = None THEN AttributeError
    ELSE IF l \in PhysicalSystems THEN PsActionSpace(l)
    ELSE IF _action_space[l] = None THEN action_space(_physical_system[l])
    ELSE _action_space[l]

RECURSIVE state_space(_)
state_space(l) ==
    IF l = None THEN AttributeError
    ELSE IF l \in PhysicalSystems THEN PsStateSpace(l)
    ELSE IF _state_space[l] = None THEN state_space(_physical_system[l])
    ELSE _state_space[l]

\* Variant of limits that reports only the stage's own field.
limits_own_field(l) ==
    IF l = None THEN AttributeError
    ELSE IF l \in PhysicalSystems THEN PsLimits(l)
    ELSE _limits[l]

RECURSIVE limits(_)
limits(l) ==
    IF l = None THEN AttributeError
    ELSE IF l \in PhysicalSystems THEN PsLimits(l)
    ELSE IF _limits[l] = None THEN limits(_physical_system[l])
    ELSE _limits[l]

RECURSIVE nominal_state(_)
nominal_state(l) ==
    IF l = None THEN AttributeError
    ELSE IF l \in PhysicalSystems THEN PsNominalState(l)
    ELSE IF _nominal_state[l] = None THEN nominal_state(_physical_system[l])
    ELSE _nominal_state[l]

RECURSIVE state_names(_)
state_names(l) ==
    IF l = None THEN <<AttributeError>>
    ELSE IF l \in PhysicalSystems THEN PsStateNames(l)
    ELSE IF _state_names[l] = NoNames THEN state_names(_physical_system[l])
    ELSE _state_names[l]

\* PhysicalSystem.tau, inherited by a stage: its own _tau.
tau(l) ==
    IF l \in PhysicalSystems THEN PsTau(l) ELSE _tau[l]

\* Variant of getattr that looks one layer down only and never further.
getattr_one_level(l, name) ==
    IF l = None THEN <<AttributeError>>
    ELSE IF l \in PhysicalSystems
         THEN IF name \in PsAttrs THEN <<l, name>> ELSE <<AttributeError>>
    ELSE IF name = "physical_system" THEN <<"layer", _physical_system[l]>>
    ELSE IF _physical_system[l] \in PhysicalSystems /\ name \in PsAttrs
         THEN <<_physical_system[l], name>>
    ELSE <<AttributeError>>

\* Attribute lookup on a layer: class attributes first, then __getattr__
\* (lines 38-41, 49-51, 86-87). Values are tuples; <<AttributeError>> is a raise.
RECURSIVE getattr(_, _)
getattr(l, name) ==
    IF l = None THEN <<AttributeError>>
    ELSE IF l \in PhysicalSystems
         THEN IF name \in PsAttrs THEN <<l, name>> ELSE <<AttributeError>>
    ELSE IF name = "physical_system" THEN <<"layer", _physical_system[l]>>
    ELSE getattr(_physical_system[l], name)

\* The action transform of a stage: the base class forwards the action as it
\* is (line 90); the scenario-2 stage halves it.
HalveAction(a) == a \div 2
TransformAction(s, a) == IF s \in HalvingStages THEN HalveAction(a) ELSE a

\* RandomComponent.next_generator: the next child of the seed sequence.
NextSeedSequence(q) == [q EXCEPT !.spawned = @ + 1]
NextGenerator(q) == [entropy |-> q.entropy, child |-> q.spawned + 1]

\* Variant of ResetEvents that resets the inner layer before rotating.
RECURSIVE ResetEvents_inner_first(_)
ResetEvents_inner_first(l) ==
    IF l = None THEN <<>>
    ELSE IF l \in PhysicalSystems THEN << <<"reset", l, 0>> >>
    ELSE << <<"reset", l, 0>> >> \o ResetEvents_inner_first(_physical_system[l])
         \o << <<"next_generator", l, 0>> >>

\* The calls reset(l) makes, in order (lines 92-94).
RECURSIVE ResetEvents(_)
ResetEvents(l) ==
    IF l = None THEN <<>>
    ELSE IF l \in PhysicalSystems THEN << <<"reset", l, 0>> >>
    ELSE << <<"reset", l, 0>>, <<"next_generator", l, 0>> >>
         \o ResetEvents(_physical_system[l])

\* Variant of SimulateEvents that hands the caller's action down untransformed.
RECURSIVE SimulateEvents_untransformed(_, _)
SimulateEvents_untransformed(l, a) ==
    IF l = None THEN <<>>
    ELSE IF l \in PhysicalSystems THEN << <<"simulate", l, a>> >>
    ELSE << <<"simulate", l, a>> >>
         \o SimulateEvents_untransformed(_physical_system[l], a)

\* The calls simulate(l, a) makes, in order (lines 89-90).
RECURSIVE SimulateEvents(_, _)
SimulateEvents(l, a) ==
    IF l = None THEN <<>>
    ELSE IF l \in PhysicalSystems THEN << <<"simulate", l, a>> >>
    ELSE << <<"simulate", l, a>> >>
         \o SimulateEvents(_physical_system[l], TransformAction(l, a))

\* The calls seed(l, v) makes, in order (lines 82-84): the inner layer is
\* seeded when it is a RandomComponent (every stage is one).
RECURSIVE SeedEvents(_, _)
SeedEvents(l, v) ==
    IF l = None THEN <<>>
    ELSE IF l \in PhysicalSystems
         THEN IF l \in RandomPhysicalSystems THEN << <<"seed", l, v>> >> ELSE <<>>
    ELSE << <<"seed", l, v>> >> \o SeedEvents(_physical_system[l], v)

Result(status, value) == [status |-> status, value |-> value]

\* PhysicalSystem.k, inherited by a stage: the layer's own step counter.
k_of(l) == layer_k[l]

\* The steps the physical systems have taken since their last reset.
RECURSIVE SumOfSteps(_)
SumOfSteps(ps) ==
    IF ps = {} THEN 0
    ELSE LET p == CHOOSE q \in ps : TRUE IN layer_k[p] + SumOfSteps(ps \ {p})

StepsTaken == SumOfSteps(PhysicalSystems)

\* The step counters after simulate(s, a) (lines 89-90): the call is only
\* delegated, so the physical system at the end of the chain advances by one
\* step and no stage's own counter is assigned.
SimulateTime(s) ==
    IF Innermost(s) = None THEN layer_k
    ELSE [layer_k EXCEPT ![Innermost(s)] = @ + 1]

\* The step counters after reset(s) (lines 92-94): the physical system at the
\* end of the chain starts again at step 0; the stage does not reset the
\* PhysicalSystem part of itself.
ResetTime(s) ==
    IF Innermost(s) = None THEN layer_k
    ELSE [layer_k EXCEPT ![Innermost(s)] = 0]

----------------------------------------------------------------------------
\* StateActionProcessor() for every stage (lines 65-72 with no physical
\* system); the seed sequence of a stage starts from entropy of its own.
OsEntropy(s) == <<"os", StageIndex(s)>>

ChainInit ==
    /\ _physical_system = [s \in Stages |-> None]
    /\ _action_space = [s \in Stages |-> None]
    /\ _state_space = [s \in Stages |-> None]
    /\ _limits = [s \in Stages |-> None]
    /\ _nominal_state = [s \in Stages |-> None]
    /\ _state_names = [s \in Stages |-> <<>>]
    /\ _state_positions = [s \in Stages |-> StatePositions(<<>>)]
    /\ _tau = [s \in Stages |-> None]
    /\ _seed_sequence = [s \in Stages |-> [entropy |-> OsEntropy(s), spawned |-> 0]]
    /\ _random_generator = [s \in Stages |-> [entropy |-> OsEntropy(s), child |-> 0]]
    /\ layer_k = [l \in Layers |-> 0]
    /\ events = <<>>
    /\ result = Result(Ok, <<>>)

\* stage.set_physical_system(l) (lines 74-80). A stage wraps a physical system
\* or a stage constructed before it.
set_physical_system(s, l) ==
    LET a == action_space(l)
        n == state_names(l)
    IN
    /\ l \in PhysicalSystems \/ (l \in Stages /\ StageIndex(l) < StageIndex(s))
    /\ _physical_system' = [_physical_system EXCEPT ![s] = l]
    /\ IF a = AttributeError
       THEN /\ UNCHANGED <<_action_space, _state_names, _state_positions, _tau>>
            /\ result' = Result(AttributeError, <<>>)
       ELSE /\ _action_space' = [_action_space EXCEPT ![s] = a]
            /\ _state_names' = [_state_names EXCEPT ![s] = n]
            /\ _state_positions' = [_state_positions EXCEPT ![s] = StatePositions(n)]
            /\ _tau' = [_tau EXCEPT ![s] = tau(l)]
            /\ result' = Result(Ok, <<>>)
    /\ events' = << <<"set_physical_system", s, l>> >>
    /\ UNCHANGED <<_state_space, _limits, _nominal_state, _seed_sequence,
                   _random_generator>>
    /\ UNCHANGED <<layer_k, refVars, envVars, buildVars>>

\* StateActionProcessor(l) (lines 65-72): the constructor attaches the new
\* stage; when it raises, no stage object comes into being.
construct(s, l) ==
    /\ _physical_system[s] = None
    /\ action_space(l) # AttributeError
    /\ set_physical_system(s, l)

\* stage.action_space = space (lines 21-23).
set_action_space(s, space) ==
    /\ _action_space' = [_action_space EXCEPT ![s] = space]
    /\ events' = << <<"action_space.setter", s, space>> >>
    /\ result' = Result(Ok, <<>>)
    /\ UNCHANGED <<_physical_system, _state_space, _limits, _nominal_state,
                   _state_names, _state_positions, _tau, _seed_sequence,
                   _random_generator>>
    /\ UNCHANGED <<layer_k, refVars, envVars, buildVars>>

\* stage.state_space = space (lines 34-36).
set_state_space(s, space) ==
    /\ _state_space' = [_state_space EXCEPT ![s] = space]
    /\ events' = << <<"state_space.setter", s, space>> >>
    /\ result' = Result(Ok, <<>>)
    /\ UNCHANGED <<_physical_system, _action_space, _limits, _nominal_state,
                   _state_names, _state_positions, _tau, _seed_sequence,
                   _random_generator>>
    /\ UNCHANGED <<layer_k, refVars, envVars, buildVars>>

\* stage.seed(v) (lines 82-84): only forwarded to the inner layer.
seed(s, v) ==
    /\ events' = SeedEvents(s, v)
    /\ result' = Result(Ok, <<>>)
    /\ UNCHANGED <<_physical_system, _action_space, _state_space, _limits,
                   _nominal_state, _state_names, _state_positions, _tau,
                   _seed_sequence, _random_generator>>
    /\ UNCHANGED <<layer_k, refVars, envVars, buildVars>>

\* stage.reset() (lines 92-94): next_generator, then the inner layer's reset,
\* which returns the initial state (zeros).
reset(s) ==
    /\ \A t \in StagesOf(s) : _seed_sequence[t].spawned < MaxSpawn
    /\ _seed_sequence' = [t \in Stages |->
            IF t \in StagesOf(s) THEN NextSeedSequence(_seed_sequence[t])
            ELSE _seed_sequence[t]]
    /\ _random_generator' = [t \in Stages |->
            IF t \in StagesOf(s) THEN NextGenerator(_seed_sequence[t])
            ELSE _random_generator[t]]
    /\ result' = IF Innermost(s) = None THEN Result(AttributeError, <<>>)
                 ELSE Result(Ok, <<0>>)
    /\ events' = ResetEvents(s)
    /\ layer_k' = ResetTime(s)
    /\ UNCHANGED <<_physical_system, _action_space, _state_space, _limits,
                   _nominal_state, _state_names, _state_positions, _tau>>
    /\ UNCHANGED <<refVars, envVars, buildVars>>

\* stage.simulate(a) (lines 89-90); the physical system returns any state x,
\* logged as the last event.
simulate(s, a) ==
    /\ Innermost(s) # None => StepsTaken < MaxSimSteps
    /\ \E x \in PsStateValues :
          IF Innermost(s) = None
          THEN /\ result' = Result(AttributeError, <<>>)
               /\ events' = SimulateEvents(s, a)
          ELSE /\ result' = Result(Ok, <<x>>)
               /\ events' = Append(SimulateEvents(s, a), <<"returned", Innermost(s), x>>)
    /\ layer_k' = SimulateTime(s)
    /\ UNCHANGED <<_physical_system, _action_space, _state_space, _limits,
                   _nominal_state, _state_names, _state_positions, _tau,
                   _seed_sequence, _random_generator>>
    /\ UNCHANGED <<refVars, envVars, buildVars>>

\* getattr(stage, name) by a caller.
get_attribute(s, name) ==
    /\ events' = << <<"getattr", s, name>> >>
    /\ result' = LET v == getattr(s, name) IN
                 IF v = <<AttributeError>> THEN Result(AttributeError, <<>>)
                 ELSE Result(Ok, v)
    /\ UNCHANGED <<_physical_system, _action_space, _state_space, _limits,
                   _nominal_state, _state_names, _state_positions, _tau,
                   _seed_sequence, _random_generator>>
    /\ UNCHANGED <<layer_k, refVars, envVars, buildVars>>

(***************************************************************************)
(* PART 2 - the step reference generator (step_reference_generator.py).    *)
(* Values are in units of 1/One, times in steps of tau = 1/TauDen s, the   *)
(* duty ratio in 1/RatioDen and the phase in 1/PhaseDen; the arithmetic is  *)
(* exact (no floating-point rounding).                                      *)
(***************************************************************************)

\* The normalized value 1.0 (the bound of the normalized spaces).
One == 2
\* np.inf of the default ranges (lines 25, 27): above every value in use.
Inf == 100
\* 1 / tau of the physical system the generator is bound to (tau = 1e-4).
TauDen == 10000
\* Denominators of the grids the duty ratio and the phase are drawn from.
RatioDen == 8
PhaseDen == 8
\* Longest segment (episode_lengths) of the model.
MaxSegmentLength == 3

\* amplitude_range, frequency_range, offset_range arguments of __init__.
AmplitudeRangeArgs == {<<None>>, <<1, 2 * One>>}
FrequencyRangeArgs == {<<1, 1>>, <<2500, 5000>>}
OffsetRangeArgs == {<<None>>, <<0, 0>>}

\* Limit margins the bound physical system gives the referenced state.
LimitMargins == {<<-One, One>>, <<0, One>>}

\* Grids of the random draws.
FrequencyValues == {1, 2500, 5000}
RatioValues == {0, 3, 4}
PhaseValues == {0, 3}
SegmentLengths == 1..MaxSegmentLength

Min(a, b) == IF a < b THEN a ELSE b
Max(a, b) == IF a > b THEN a ELSE b

\* Variant of Clip that forgets the upper bound.
Clip_lower_only(v, lo, hi) == Max(v, lo)

\* np.clip on a scalar: minimum(maximum(v, lo), hi).
Clip(v, lo, hi) == Min(Max(v, lo), hi)

\* Variant of ClipRange that leaves the range as it is.
ClipRange_identity(r, lo, hi) == r

\* np.clip on a range (lines 31-36, 41-45).
ClipRange(r, lo, hi) == <<Clip(r[1], lo, hi), Clip(r[2], lo, hi)>>

\* np.sign.
Sign(v) == IF v > 0 THEN 1 ELSE IF v < 0 THEN -1 ELSE 0

\* _get_current_value(range): a uniform draw from the range.
Uniform(r) == Min(r[1], r[2])..Max(r[1], r[2])

\* Variant of WaveSample with the levels exchanged.
WaveSample_high_first(k, f, ratio) ==
    Sign(ratio * TauDen - ((k * f) % TauDen) * RatioDen)

\* Line 53-55 at sample k (t = k * tau): sign(f * (t mod 1/f) - ratio), as
\* the sign of ((k * f) mod TauDen) / TauDen - ratio / RatioDen.
WaveSample(k, f, ratio) == Sign(((k * f) % TauDen) * RatioDen - ratio * TauDen)

\* Lines 48-55: the unshifted wave of n samples (t = linspace(0, (n-1) tau, n)).
Wave(n, f, ratio) == [i \in 1..n |-> WaveSample(i - 1, f, ratio)]

\* Lines 57-58: int(steps_per_period * phase), steps_per_period = 1 / f / tau.
PhaseShift(f, phase) == (TauDen * phase) \div (f * PhaseDen)

\* Variant of Roll that does not wrap around: the samples shifted in at the
\* front repeat the first sample.
Roll_without_wrap(x, shift) ==
    [i \in 1..Len(x) |-> x[Max(i - (shift % Len(x)), 1)]]

\* np.roll(x, shift).
Roll(x, shift) ==
    [i \in 1..Len(x) |-> x[((i - 1 - shift) % Len(x)) + 1]]

\* Line 59-60: amplitude * x + offset, clipped to the limit margin.
Reference(x, amplitude, offset, margin) ==
    [i \in 1..Len(x) |-> Clip(amplitude * x[i] + offset, margin[1], margin[2])]

\* Variant of OffsetDrawRange that ignores the drawn amplitude.
OffsetDrawRange_unclamped(amplitude) == _offset_range

\* Lines 41-45: the range the offset is drawn from.
OffsetDrawRange(amplitude) ==
    ClipRange(_offset_range, _limit_margin[1] + amplitude,
              _limit_margin[2] - amplitude)

RefOtherVars == <<rg_bound, _amplitude_range, _frequency_range, _offset_range,
                  _limit_margin>>

\* StepReferenceGenerator(amplitude_range, frequency_range, offset_range)
\* (lines 12-27) with the given arguments.
RefConstructed(ar, fr, or) ==
    /\ rg_bound = FALSE
    /\ _amplitude_range = IF ar = <<None>> THEN <<0, Inf>> ELSE ar
    /\ _frequency_range = fr
    /\ _offset_range = IF or = <<None>> THEN <<-Inf, Inf>> ELSE or
    /\ _limit_margin = <<None>>
    /\ _amplitude = 0
    /\ _frequency = 0
    /\ _offset = 0
    /\ _reference = <<>>
    /\ _current_episode_length = 0
    /\ _k = 0
    /\ _reference_value = 0
    /\ draws = <<>>
    /\ rg_call = "init"
    /\ rg_result = 0

\* A generator constructed with any of the argument choices.
RefInit ==
    \E ar \in AmplitudeRangeArgs, fr \in FrequencyRangeArgs, or \in OffsetRangeArgs :
        RefConstructed(ar, fr, or)

\* The generator constructed with the default amplitude and offset ranges.
RefIdle == RefConstructed(<<None>>, <<1, 1>>, <<None>>)

\* Variant of set_modules that leaves the amplitude range as configured.
set_modules_amplitude_unclipped(margin) ==
    /\ rg_bound = FALSE
    /\ rg_bound' = TRUE
    /\ _limit_margin' = margin
    /\ _offset_range' = ClipRange(_offset_range, margin[1], margin[2])
    /\ rg_call' = "set_modules"
    /\ UNCHANGED <<_amplitude_range, _frequency_range, _amplitude, _frequency,
                   _offset, _reference, _current_episode_length, _k,
                   _reference_value, draws, rg_result>>
    /\ UNCHANGED <<chainVars, envVars, buildVars>>

\* set_modules(physical_system) (lines 29-36); the superclass binds the
\* physical system once and derives the limit margin from it.
set_modules(margin) ==
    /\ rg_bound = FALSE
    /\ rg_bound' = TRUE
    /\ _limit_margin' = margin
    /\ _amplitude_range' = ClipRange(_amplitude_range, 0, (margin[2] - margin[1]) \div 2)
    /\ _offset_range' = ClipRange(_offset_range, margin[1], margin[2])
    /\ rg_call' = "set_modules"
    /\ UNCHANGED <<_frequency_range, _amplitude, _frequency, _offset, _reference,
                   _current_episode_length, _k, _reference_value, draws, rg_result>>
    /\ UNCHANGED <<chainVars, envVars, buildVars>>

\* Variant of _reset_reference that draws the duty ratio and the phase before
\* the amplitude.
_reset_reference_ratio_first(n, amplitude, frequency, offset, ratio, phase) ==
    /\ amplitude \in Uniform(_amplitude_range)
    /\ frequency \in Uniform(_frequency_range)
    /\ offset \in Uniform(OffsetDrawRange(amplitude))
    /\ _amplitude' = amplitude
    /\ _frequency' = frequency
    /\ _offset' = offset
    /\ _reference' = Reference(Roll(Wave(n, frequency, ratio), PhaseShift(frequency, phase)),
                               amplitude, offset, _limit_margin)
    /\ draws' = << <<"length", n>>, <<"high_low_ratio", ratio>>,
                   <<"phase", phase>>, <<"amplitude", amplitude>>,
                   <<"frequency", frequency>>, <<"offset", offset>> >>

\* _reset_reference() (lines 38-60) with the values the random generator
\* returns, for a segment of n samples.
_reset_reference(n, amplitude, frequency, offset, ratio, phase) ==
    /\ amplitude \in Uniform(_amplitude_range)
    /\ frequency \in Uniform(_frequency_range)
    /\ offset \in Uniform(OffsetDrawRange(amplitude))
    /\ _amplitude' = amplitude
    /\ _frequency' = frequency
    /\ _offset' = offset
    /\ _reference' = Reference(Roll(Wave(n, frequency, ratio), PhaseShift(frequency, phase)),
                               amplitude, offset, _limit_margin)
    /\ draws' = << <<"length", n>>, <<"amplitude", amplitude>>,
                   <<"frequency", frequency>>, <<"offset", offset>>,
                   <<"high_low_ratio", ratio>>, <<"phase", phase>> >>

\* get_reference_observation() of the superclass: a new segment when the
\* current one is used up; then the value at _k is handed out and _k advances.
Segment(n) ==
    \E amplitude \in Uniform(_amplitude_range),
       frequency \in FrequencyValues, ratio \in RatioValues, phase \in PhaseValues :
      \E offset \in Uniform(OffsetDrawRange(amplitude)) :
        /\ _reset_reference(n, amplitude, frequency, offset, ratio, phase)
        /\ _current_episode_length' = n
        /\ _reference_value' = _reference'[1]
        /\ _k' = 1
        /\ rg_result' = _reference'[1]

NewSegment == \E n \in SegmentLengths : Segment(n)

\* Variant of NextSample that computes the segment anew at every step.
NextSample_recomputed == NewSegment

NextSample ==
    /\ _reference_value' = _reference[_k + 1]
    /\ _k' = _k + 1
    /\ rg_result' = _reference[_k + 1]
    /\ UNCHANGED <<_amplitude, _frequency, _offset, _reference,
                   _current_episode_length, draws>>

\* reset() of the generator: a new episode, whose first segment is generated.
rg_reset ==
    /\ rg_bound
    /\ NewSegment
    /\ rg_call' = "reset"
    /\ UNCHANGED RefOtherVars
    /\ UNCHANGED <<chainVars, envVars, buildVars>>

\* get_reference_observation(): one step of the episode.
get_reference_observation ==
    /\ rg_bound
    /\ rg_call # "init" /\ rg_call # "set_modules"
    /\ IF _k >= _current_episode_length THEN NewSegment ELSE NextSample
    /\ rg_call' = "get_reference_observation"
    /\ UNCHANGED RefOtherVars
    /\ UNCHANGED <<chainVars, envVars, buildVars>>

\* get_reference(): the reference of the current step, again.
get_reference ==
    /\ rg_bound
    /\ rg_call # "init" /\ rg_call # "set_modules"
    /\ rg_result' = _reference_value
    /\ rg_call' = "get_reference"
    /\ UNCHANGED <<RefOtherVars, _amplitude, _frequency, _offset, _reference,
                   _current_episode_length, _k, _reference_value, draws>>
    /\ UNCHANGED <<chainVars, envVars, buildVars>>

\* Scenario 1: amplitude_range = (0, 1), frequency_range = (1, 1),
\* offset_range = (0, 0), tau = 1e-4, segments of ScenarioLength steps.
ScenarioLength == 10

ScenarioConstructed == RefConstructed(<<0, One>>, <<1, 1>>, <<0, 0>>)

\* reset() of the scenario's generator.
scenario_reset ==
    /\ rg_bound
    /\ Segment(ScenarioLength)
    /\ rg_call' = "reset"
    /\ UNCHANGED RefOtherVars
    /\ UNCHANGED <<chainVars, envVars, buildVars>>

\* get_reference_observation() of the scenario's generator.
scenario_step ==
    /\ rg_bound
    /\ rg_call # "init" /\ rg_call # "set_modules"
    /\ IF _k >= _current_episode_length THEN Segment(ScenarioLength) ELSE NextSample
    /\ rg_call' = "get_reference_observation"
    /\ UNCHANGED RefOtherVars
    /\ UNCHANGED <<chainVars, envVars, buildVars>>

ScenarioNext ==
    \/ \E m \in LimitMargins : set_modules(m)
    \/ scenario_reset
    \/ scenario_step
    \/ get_reference

RefNext ==
    \/ \E m \in LimitMargins : set_modules(m)
    \/ rg_reset
    \/ get_reference_observation
    \/ get_reference

(***************************************************************************)
(* PART 3 - the motor environments (dc_extex_motor_env.py,                  *)
(* finite_cc_series_dc_env.py) and the step loop of the environment base    *)
(* class they configure.  State values are normalized, One is the limit.    *)
(***************************************************************************)

\* Longest episode of the model.
MaxEpisodeSteps == 3

EnvKinds == {"FiniteSpeedControlDcExternallyExcitedMotorEnv",
             "FiniteCurrentControlDcSeriesMotorEnv"}

\* The environment with a combined constraint on two currents.
ScimEnv == "ContTorqueControlSquirrelCageInductionMotorEnv"

\* "Constraints: Current Limit on ..." of the class docstrings: the
\* currents whose limits end the episode.
LimitedCurrents(e) ==
    IF e = "FiniteSpeedControlDcExternallyExcitedMotorEnv" THEN {"i_a", "i_e"}
    ELSE IF e = ScimEnv THEN {} ELSE {"i"}

\* Variant of the default constraints without the combined constraint.
squared_constraints_none(e) == {}

\* The SquaredConstraint of the constraints default: the pairs of state
\* variables whose squares are summed.
squared_constraints(e) == IF e = ScimEnv THEN {<<"i_sq", "i_sd">>} ELSE {}

\* The state variables of the docstrings the model follows: the speed and
\* the currents.
EnvStateNames(e) ==
    IF e = ScimEnv THEN {"omega", "i_sd", "i_sq"}
    ELSE {"omega"} \cup LimitedCurrents(e)

\* Variant of the default constraints that forgets the excitation current.
constraints_without_i_e(e) ==
    IF e = "FiniteSpeedControlDcExternallyExcitedMotorEnv"
    THEN {"i_a"} ELSE {"i"}

\* The constraints default of __init__.
constraints(e) ==
    IF e = "FiniteSpeedControlDcExternallyExcitedMotorEnv" THEN {"i_a", "i_e"}
    ELSE IF e = ScimEnv THEN {} ELSE {"i"}

\* Discrete(n) of the docstrings: the actions 0..n-1.
EnvActionSpace(e) ==
    IF e = "FiniteSpeedControlDcExternallyExcitedMotorEnv" THEN 0..7
    ELSE IF e = ScimEnv THEN -1..1 ELSE 0..3

\* Actions a caller passes to step(): a member and a non-member.
EnvActions == {0, 8}

\* Normalized values a state variable takes: zero, both signs beyond the
\* limit, and exactly the limit.
EnvStateValues == {-(One + 1), 0, One, One + 1}

Abs(v) == IF v < 0 THEN -v ELSE v

\* LimitConstraint: violated when the magnitude of a monitored state
\* variable is above its limit.
Violated(e, state) ==
    \/ \E n \in constraints(e) : Abs(state[n]) > One
    \/ \E c \in squared_constraints(e) :
          state[c[1]] * state[c[1]] + state[c[2]] * state[c[2]] > One * One

StepResult(status, state, terminated, truncated) ==
    [status |-> status, state |-> state, terminated |-> terminated,
     truncated |-> truncated]

AssertionError == "AssertionError"

ZeroState(e) == [n \in EnvStateNames(e) |-> 0]

EnvConstructed(e) ==
    /\ env_kind = e
    /\ env_phase = "READY"
    /\ env_state = ZeroState(e)
    /\ env_episode = <<>>
    /\ env_result = StepResult(Ok, ZeroState(e), FALSE, FALSE)
    /\ env_call = <<"init", 0>>
    /\ env_k = 0
    /\ env_ref_k = 0
    /\ env_generator = 0

EnvInit == \E e \in EnvKinds : EnvConstructed(e)

EnvIdle == EnvConstructed("FiniteCurrentControlDcSeriesMotorEnv")

\* env.reset(): the random generators are rotated, a new episode starts
\* from the initial state (zeros).
env_reset ==
    /\ env_generator < MaxSpawn
    /\ env_generator' = env_generator + 1
    /\ env_phase' = "EPISODE_ACTIVE"
    /\ env_state' = ZeroState(env_kind)
    /\ env_episode' = <<>>
    /\ env_k' = 0
    /\ env_ref_k' = 0
    /\ env_result' = StepResult(Ok, ZeroState(env_kind), FALSE, FALSE)
    /\ env_call' = <<"reset", 0>>
    /\ UNCHANGED <<env_kind, chainVars, refVars, buildVars>>

\* Variant of StepOutcome that simulates before it looks at the action.
StepOutcome_simulated_first(action, x) ==
    /\ env_state' = x
    /\ env_k' = env_k + 1
    /\ env_ref_k' = env_ref_k + 1
    /\ env_episode' = Append(env_episode, <<x, Violated(env_kind, x)>>)
    /\ env_phase' = IF Violated(env_kind, x) THEN "READY" ELSE "EPISODE_ACTIVE"
    /\ env_result' =
          IF action \notin EnvActionSpace(env_kind)
          THEN StepResult(AssertionError, env_state, FALSE, FALSE)
          ELSE StepResult(Ok, x, Violated(env_kind, x), FALSE)

\* What step(action) does when the physical system would return the state
\* x: an action outside the action space is refused before anything runs;
\* otherwise the system is simulated, the reference advances, the
\* constraints are evaluated; the episode is truncated when the configured
\* length is reached without a violation.
StepOutcome(action, x) ==
    IF action \notin EnvActionSpace(env_kind)
    THEN /\ env_result' = StepResult(AssertionError, env_state, FALSE, FALSE)
         /\ UNCHANGED <<env_phase, env_state, env_episode, env_k, env_ref_k>>
    ELSE LET terminated == Violated(env_kind, x)
             truncated == ~terminated /\ env_k + 1 = MaxEpisodeSteps
         IN
         /\ env_state' = x
         /\ env_k' = env_k + 1
         /\ env_ref_k' = env_ref_k + 1
         /\ env_episode' = Append(env_episode, <<x, terminated>>)
         /\ env_result' = StepResult(Ok, x, terminated, truncated)
         /\ env_phase' = IF terminated \/ truncated THEN "READY"
                         ELSE "EPISODE_ACTIVE"

\* env.step(action) in a running episode; the physical system returns the
\* state x.
env_step(action, x) ==
    /\ env_phase = "EPISODE_ACTIVE"
    /\ Len(env_episode) < MaxEpisodeSteps
    /\ StepOutcome(action, x)
    /\ env_call' = <<"step", action>>
    /\ UNCHANGED <<env_kind, env_generator, chainVars, refVars, buildVars>>

EnvNext ==
    \/ env_reset
    \/ \E action \in EnvActions :
          \E x \in [EnvStateNames(env_kind) -> EnvStateValues] : env_step(action, x)

(***************************************************************************)
(* PART 4 - the constructors of the environments: every role's component    *)
(* specification goes through initialize(base, spec, default type, default  *)
(* args).  Arguments are sets of <<key, value>> pairs.                      *)
(***************************************************************************)

ExtExEnvs == {"FiniteSpeedControlDcExternallyExcitedMotorEnv",
              "ContSpeedControlDcExternallyExcitedMotorEnv",
              "FiniteTorqueControlDcExternallyExcitedMotorEnv",
              "ContTorqueControlDcExternallyExcitedMotorEnv",
              "FiniteCurrentControlDcExternallyExcitedMotorEnv",
              "ContCurrentControlDcExternallyExcitedMotorEnv"}

EnvClasses == ExtExEnvs \cup {"FiniteCurrentControlDcSeriesMotorEnv"}

FiniteEnvs == {"FiniteSpeedControlDcExternallyExcitedMotorEnv",
               "FiniteTorqueControlDcExternallyExcitedMotorEnv",
               "FiniteCurrentControlDcExternallyExcitedMotorEnv",
               "FiniteCurrentControlDcSeriesMotorEnv"}

SpeedEnvs == {"FiniteSpeedControlDcExternallyExcitedMotorEnv",
              "ContSpeedControlDcExternallyExcitedMotorEnv"}

TorqueEnvs == {"FiniteTorqueControlDcExternallyExcitedMotorEnv",
               "ContTorqueControlDcExternallyExcitedMotorEnv"}

\* The env-arg parameters of the constructors.
Roles == {"supply", "converter", "motor", "load", "ode_solver",
          "reference_generator", "reward_function", "visualization"}

\* Variant in which the converter is resolved from the motor's specification.
SpecPassed_motor_for_converter(e, r) == IF r = "converter" THEN "motor" ELSE r

\* The constructor parameter whose value is handed to initialize for a role.
SpecPassed(e, r) == r

\* The default type (third argument of initialize) of each role.
DefaultType(e, r) ==
    CASE r = "supply" -> "IdealVoltageSupply"
      [] r = "converter" ->
            IF e = "FiniteCurrentControlDcSeriesMotorEnv" THEN "FiniteFourQuadrantConverter"
            ELSE IF e = "ContCurrentControlDcExternallyExcitedMotorEnv" THEN "ContFourQuadrantConverter"
            ELSE IF e \in FiniteEnvs THEN "FiniteMultiConverter"
            ELSE "ContMultiConverter"
      [] r = "motor" ->
            IF e = "FiniteCurrentControlDcSeriesMotorEnv" THEN "DcSeriesMotor"
            ELSE IF e \in SpeedEnvs \cup {"FiniteTorqueControlDcExternallyExcitedMotorEnv"}
                 THEN "DcExternallyExcitedMotor"
            ELSE "DcPermanentlyExcitedMotor"
      [] r = "load" ->
            IF e \in SpeedEnvs THEN "PolynomialStaticLoad" ELSE "ConstantSpeedLoad"
      [] r = "ode_solver" ->
            IF e = "FiniteCurrentControlDcSeriesMotorEnv" THEN "ScipyOdeSolver"
            ELSE "EulerSolver"
      [] r = "reference_generator" ->
            IF e \in {"FiniteCurrentControlDcExternallyExcitedMotorEnv",
                      "ContCurrentControlDcExternallyExcitedMotorEnv"}
            THEN "MultipleReferenceGenerator" ELSE "WienerProcessReferenceGenerator"
      [] r = "reward_function" -> "WeightedSumOfErrors"
      [] r = "visualization" -> "MotorDashboard"

\* The quantity an environment controls, as its default arguments name it.
ControlledQuantity(e) ==
    IF e \in SpeedEnvs THEN "omega"
    ELSE IF e \in TorqueEnvs THEN "torque"
    ELSE IF e = "FiniteCurrentControlDcSeriesMotorEnv" THEN "i"
    ELSE "i_a, i_e"

\* The default arguments (fourth argument of initialize) of each role.
DefaultArgs(e, r) ==
    CASE r = "supply" -> {<<"u_nominal", "420.0">>}
      [] r = "converter" ->
            IF DefaultType(e, r) \in {"FiniteMultiConverter", "ContMultiConverter"}
            THEN {<<"subconverters", "default_subconverters">>} ELSE {}
      [] r = "motor" -> {}
      [] r = "load" ->
            IF e \in SpeedEnvs THEN {<<"load_parameter", "dict(a=0.01, b=0.01, c=0.0)">>}
            ELSE {<<"omega_fixed", "100.0">>}
      [] r = "ode_solver" -> {}
      [] r = "reference_generator" ->
            IF DefaultType(e, r) = "MultipleReferenceGenerator"
            THEN {<<"sub_generators", "sub_generators">>}
            ELSE {<<"reference_state", ControlledQuantity(e)>>}
      [] r = "reward_function" -> {<<"reward_weights", ControlledQuantity(e)>>}
      [] r = "visualization" ->
            {<<"state_plots", ControlledQuantity(e)>>,
             <<"action_plots", IF e = "FiniteCurrentControlDcSeriesMotorEnv" THEN "all"
                               ELSE IF DefaultType(e, "reference_generator") = "MultipleReferenceGenerator"
                               THEN "(0, 1)" ELSE "(0,)">>}

\* default_subconverters: each entry <<type, "instance" or "class">>, as it
\* is written in the constructor (with or without the call parentheses).
DefaultSubconverters(e) ==
    IF e = "FiniteSpeedControlDcExternallyExcitedMotorEnv"
    THEN << <<"FiniteFourQuadrantConverter", "instance">>,
            <<"FiniteOneQuadrantConverter", "class">> >>
    ELSE IF e \in {"FiniteTorqueControlDcExternallyExcitedMotorEnv",
                   "FiniteCurrentControlDcExternallyExcitedMotorEnv"}
    THEN << <<"FiniteFourQuadrantConverter", "instance">>,
            <<"FiniteOneQuadrantConverter", "instance">> >>
    ELSE IF e \in {"ContSpeedControlDcExternallyExcitedMotorEnv",
                   "ContTorqueControlDcExternallyExcitedMotorEnv"}
    THEN << <<"ContFourQuadrantConverter", "instance">>,
            <<"ContOneQuadrantConverter", "instance">> >>
    ELSE <<>>

\* "Default Components" of the class docstrings: motor and converter.
DocumentedMotor(e) ==
    IF e \in ExtExEnvs THEN "DcExternallyExcitedMotor" ELSE "DcSeriesMotor"

DocumentedConverter(e) ==
    IF e = "FiniteCurrentControlDcSeriesMotorEnv" THEN "FiniteFourQuadrantConverter"
    ELSE IF e \in FiniteEnvs THEN "FiniteMultiConverter" ELSE "ContMultiConverter"

DocumentedSubconverters(e) ==
    IF e = "FiniteCurrentControlDcSeriesMotorEnv" THEN <<>>
    ELSE IF e \in FiniteEnvs
    THEN <<"FiniteFourQuadrantConverter", "FiniteOneQuadrantConverter">>
    ELSE <<"ContFourQuadrantConverter", "ContOneQuadrantConverter">>

\* Component specifications: unset, a ready instance, a mapping.
Unset == [kind |-> "unset", type |-> None, args |-> {}]
Instance(r) == [kind |-> "instance", type |-> "Custom", args |-> {<<"made_for", r>>}]
Mapping(m) == [kind |-> "mapping", type |-> None, args |-> m]

Keys(args) == {p[1] : p \in args}

\* The specifications a caller passes for a role: unset, an instance, a
\* mapping with a further argument, a mapping overriding a default argument.
SpecsFor(e, r) ==
    {Unset, Instance(r), Mapping({<<"further_arg", "given">>})}
    \cup {Mapping({<<k, "overridden">>}) : k \in Keys(DefaultArgs(e, r))}

\* default_args updated with the mapping: the mapping's keys win.
Merge(default_args, m) ==
    m \cup {p \in default_args : p[1] \notin Keys(m)}

Component(type, args, given) == [type |-> type, args |-> args, given |-> given]

NoComponent == Component(None, {}, FALSE)

\* initialize(base, spec, default_type, default_args).
initialize(spec, default_type, default_args) ==
    IF spec.kind = "instance" THEN Component(spec.type, spec.args, TRUE)
    ELSE IF spec.kind = "mapping"
         THEN Component(default_type, Merge(default_args, spec.args), FALSE)
    ELSE Component(default_type, default_args, FALSE)

BuildIdle ==
    /\ made_env = None
    /\ env_args = [r \in Roles |-> Unset]
    /\ components = [r \in Roles |-> NoComponent]

\* e(**specs): the constructor of environment class e.
make(e, specs) ==
    /\ made_env' = e
    /\ env_args' = specs
    /\ components' = [r \in Roles |->
            initialize(specs[SpecPassed(e, r)], DefaultType(e, r), DefaultArgs(e, r))]
    /\ UNCHANGED <<chainVars, refVars, envVars>>

\* Constructor calls that specify at most two roles.
BuildNext ==
    /\ made_env = None
    /\ \E e \in EnvClasses, r1 \in Roles, r2 \in Roles :
        \E s1 \in SpecsFor(e, r1), s2 \in SpecsFor(e, r2) :
          make(e, [r \in Roles |-> IF r = r1 THEN s1 ELSE IF r = r2 THEN s2 ELSE Unset])

----------------------------------------------------------------------------
vars == <<chainVars, refVars, envVars, buildVars>>

Next ==
    \/ \E s \in Stages, l \in Layers : set_physical_system(s, l)
    \/ \E s \in Stages, v \in SpaceValues : set_action_space(s, v)
    \/ \E s \in Stages, v \in SpaceValues : set_state_space(s, v)
    \/ \E s \in Stages, v \in Seeds : seed(s, v)
    \/ \E s \in Stages : reset(s)
    \/ \E s \in Stages, a \in ActionValues : simulate(s, a)
    \/ \E s \in Stages, name \in AttrNames : get_attribute(s, name)

Init == ChainInit /\ RefIdle /\ EnvIdle /\ BuildIdle

\* Every operation of a stage, in any order.
Spec == Init /\ [][Next]_vars

\* Chains built by the constructor, then seeded, reset and simulated.
RunNext ==
    \/ \E s \in Stages, l \in Layers : construct(s, l)
    \/ \E s \in Stages, v \in Seeds : seed(s, v)
    \/ \E s \in Stages : reset(s)
    \/ \E s \in Stages, a \in ActionValues : simulate(s, a)

RunSpec == Init /\ [][RunNext]_vars

\* Chains built by the constructor, and the property setters.
PropsNext ==
    \/ \E s \in Stages, l \in Layers : construct(s, l)
    \/ \E s \in Stages, v \in SpaceValues : set_action_space(s, v)
    \/ \E s \in Stages, v \in SpaceValues : set_state_space(s, v)

PropsSpec == Init /\ [][PropsNext]_vars

\* Attachment in any order and attribute lookups.
AttrNext ==
    \/ \E s \in Stages, l \in Layers : set_physical_system(s, l)
    \/ \E s \in Stages, name \in AttrNames : get_attribute(s, name)

AttrSpec == Init /\ [][AttrNext]_vars

\* The actions a caller passes to simulate: those of ActionValues and one
\* that is outside Discrete(4) and Box(3) (the value 5.0).
AnyActionValues == ActionValues \cup {40}

\* space.contains(a) for an action in units of 1/8: Discrete(n) holds the
\* integers 0..n-1, the Box the values of [-1, 1].
Contains(space, a) ==
    CASE space = "Discrete(4)" -> a \in {8 * i : i \in 0..3}
      [] space = "Discrete(8)" -> a \in {8 * i : i \in 0..7}
      [] space = "Box(3)" -> a \in -8..8
      [] OTHER -> FALSE

\* Chains built by the constructor and simulated with any action.
AnyActionNext ==
    \/ \E s \in Stages, l \in Layers : construct(s, l)
    \/ \E s \in Stages, v \in SpaceValues : set_action_space(s, v)
    \/ \E s \in Stages, a \in AnyActionValues : simulate(s, a)

AnyActionSpec == Init /\ [][AnyActionNext]_vars

\* Attachment at any time between resets and simulations.
ReattachNext ==
    \/ \E s \in Stages, l \in Layers : set_physical_system(s, l)
    \/ \E s \in Stages : reset(s)
    \/ \E s \in Stages, a \in ActionValues : simulate(s, a)

ReattachSpec == Init /\ [][ReattachNext]_vars

\* The step reference generator in scenario 1.
ScenarioSpecInit == ChainInit /\ ScenarioConstructed /\ EnvIdle /\ BuildIdle

ScenarioSpec == ScenarioSpecInit /\ [][ScenarioNext]_vars

\* The constructors of the environments on their own.
BuildSpecInit == ChainInit /\ RefIdle /\ EnvIdle /\ BuildIdle

BuildSpec == BuildSpecInit /\ [][BuildNext]_vars

\* The episode loop of every environment, the one with the combined
\* constraint included.
AnyEnvSpecInit ==
    /\ ChainInit /\ RefIdle /\ BuildIdle
    /\ \E e \in EnvKinds \cup {ScimEnv} : EnvConstructed(e)

AnyEnvSpec == AnyEnvSpecInit /\ [][EnvNext]_vars

\* The environment's episode loop on its own.
EnvSpecInit == ChainInit /\ RefIdle /\ EnvInit /\ BuildIdle

EnvSpec == EnvSpecInit /\ [][EnvNext]_vars

\* The step reference generator on its own.
RefSpecInit == ChainInit /\ RefInit /\ EnvIdle /\ BuildIdle

RefSpec == RefSpecInit /\ [][RefNext]_vars

----------------------------------------------------------------------------
(***************************************************************************)
(* Properties of the processor chain.                                      *)
(***************************************************************************)
IsCall(ev, op, l) == Len(ev) > 0 /\ ev[1][1] = op /\ ev[1][2] = l

\* A stage whose attachment (lines 74-80) ran to its end on an attached layer.
Attached(s) == _physical_system[s] # None /\ _tau[s] # None

\* C1: at every reachable state an attached stage returns, for each of
\* action_space, state_space, limits, nominal_state and state_names, its own
\* override when one is set and otherwise the inner layer's current value.
\* (limits, nominal_state and state_names have no setter: a caller never
\* sets an override of them, so they must always equal the inner value. A
\* caller's action_space override is one of SpaceValues: a stage holding
\* another value holds no override.)
C1_PropertiesForwardUnlessOverridden ==
    \A s \in Stages : Attached(s) =>
        LET inner == _physical_system[s] IN
        /\ (_action_space[s] \notin SpaceValues \ {None} =>
                action_space(s) = action_space(inner))
        /\ (_action_space[s] # None => action_space(s) = _action_space[s])
        /\ (_state_space[s] = None => state_space(s) = state_space(inner))
        /\ (_state_space[s] # None => state_space(s) = _state_space[s])
        /\ limits(s) = limits(inner)
        /\ nominal_state(s) = nominal_state(inner)
        /\ state_names(s) = state_names(inner)

\* C2: for a chain built by the constructor, no stage of which sets an
\* override, the head's action_space, state_space, limits, nominal_state and
\* state_names equal those of the innermost physical system, after any
\* sequence of seed, reset and simulate calls.
C2_PassThroughIdentity ==
    \A s \in Stages : Innermost(s) # None =>
        /\ action_space(s) = PsActionSpace(Innermost(s))
        /\ state_space(s) = PsStateSpace(Innermost(s))
        /\ limits(s) = PsLimits(Innermost(s))
        /\ nominal_state(s) = PsNominalState(Innermost(s))
        /\ state_names(s) = PsStateNames(Innermost(s))

\* A chain of two stages over a physical system has been reset and simulated.
C2_Witness ==
    /\ Len(Path(StageIds[2])) = 3
    /\ Innermost(StageIds[2]) # None
    /\ _seed_sequence[StageIds[2]].spawned > 0
    /\ IsCall(events, "simulate", StageIds[2])
    /\ state_names(StageIds[2]) = PsStateNames(Innermost(StageIds[2]))

\* Number of halving stages among the first i-1 layers of path p.
HalvingsBefore(p, i) == Cardinality({j \in 1..(i - 1) : p[j] \in HalvingStages})

\* C3: simulate(a) on the head hands every layer below it the action
\* transformed by the stages above that layer, outermost first, so the physical
\* system receives the action transformed by all stages; the state the
\* physical system returns is returned by the head unchanged by base stages;
\* one halving stage given 8/8 presents 4/8 to the physical system.
C3_SimulateTransformsInOrder ==
    \A s \in Stages :
        (IsCall(events, "simulate", s) /\ Innermost(s) # None) =>
            LET p == Path(s)
                a == events[1][3]
            IN
            /\ Len(events) = Len(p) + 1
            /\ \A i \in 1..Len(p) :
                  events[i] = <<"simulate", p[i], a \div (2 ^ HalvingsBefore(p, i))>>
            /\ events[Len(p) + 1][1] = "returned"
            /\ result = Result(Ok, <<events[Len(p) + 1][3]>>)
            /\ (a = 8 /\ Len(p) = 2 /\ s \in HalvingStages) => events[2][3] = 4

\* One halving stage on a physical system got [1.0] and handed down [0.5].
C3_Witness ==
    /\ IsCall(events, "simulate", StageIds[2])
    /\ Len(events) = 3
    /\ events[1][3] = 8
    /\ events[2] = <<"simulate", Innermost(StageIds[2]), 4>>
    /\ result.status = Ok

\* C4: reset() of a stage rotates the generator of every stage of its chain
\* exactly once and of no other stage; each stage rotates before it resets
\* its inner layer, outermost stage first; the physical system is reset once.
C4_ResetRotatesThenDelegates ==
    [][\A s \in Stages : IsCall(events', "reset", s) =>
        LET p == Path(s)
            k == Cardinality(StagesOf(s))
        IN
        /\ \A t \in Stages :
              /\ _seed_sequence'[t].spawned = _seed_sequence[t].spawned
                    + (IF t \in StagesOf(s) THEN 1 ELSE 0)
              /\ (t \in StagesOf(s)) = (_random_generator'[t] # _random_generator[t])
        /\ \A i \in 1..k :
              /\ events'[2 * i - 1] = <<"reset", p[i], 0>>
              /\ events'[2 * i] = <<"next_generator", p[i], 0>>
        /\ IF Innermost(s) # None
           THEN /\ Len(events') = 2 * k + 1
                /\ events'[2 * k + 1] = <<"reset", Innermost(s), 0>>
                /\ result'.status = Ok
           ELSE /\ Len(events') = 2 * k
                /\ result'.status = AttributeError
      ]_vars

\* reset() of the head of a chain of two stages over a physical system ran.
C4_Witness ==
    /\ IsCall(events, "reset", StageIds[2])
    /\ Len(events) = 5
    /\ result.status = Ok
    /\ _random_generator[StageIds[1]].child = 1
    /\ _random_generator[StageIds[2]].child = 1

\* C5: after seed(v) on a stage the seed has been forwarded down to a physical
\* system that is a RandomComponent, and the stage's own seed sequence is
\* derived from v (so that equally seeded chains hold equal generators).
C5_SeedRederivesStageGenerator ==
    \A s \in Stages : (IsCall(events, "seed", s) /\ Innermost(s) # None) =>
        LET v == events[1][3] IN
        /\ (Innermost(s) \in RandomPhysicalSystems) =>
                events[Len(events)] = <<"seed", Innermost(s), v>>
        /\ _seed_sequence[s].entropy = <<"seed", v>>

\* C6: reset() right after seed(v) leaves the stage with the generator that
\* v determines (the first child of the seed sequence of v), whatever
\* happened before: repeating seed(v), reset() gives the same generator and so
\* the same draws in the episode.
C6_SeededEpisodeReproducible ==
    [][\A s \in Stages :
         (IsCall(events, "seed", s) /\ IsCall(events', "reset", s)
            /\ Innermost(s) # None) =>
            _random_generator'[s] =
                [entropy |-> <<"seed", events[1][3]>>, child |-> 1]
      ]_vars

\* C7: an attribute the stage class does not define is looked up on the inner
\* layers: through a chain of any depth it is what the physical system below
\* holds (an AttributeError when there is none), and it is the same on a stage
\* and on the layer the stage wraps.
C7_UnknownAttributesForwarded ==
    \A s \in Stages, n \in AttrNames \ StageAttrs :
        /\ getattr(s, n) =
              IF Innermost(s) # None /\ n \in PsAttrs
              THEN <<Innermost(s), n>> ELSE <<AttributeError>>
        /\ _physical_system[s] # None =>
              getattr(s, n) = getattr(_physical_system[s], n)
        /\ (IsCall(events, "getattr", s) /\ events[1][3] = n) =>
              IF Innermost(s) # None /\ n \in PsAttrs
              THEN result = Result(Ok, <<Innermost(s), n>>)
              ELSE result = Result(AttributeError, <<>>)

\* "supply" was looked up on the head of a chain of two stages.
C7_Witness ==
    /\ IsCall(events, "getattr", StageIds[2])
    /\ events[1][3] = "supply"
    /\ Len(Path(StageIds[2])) = 3
    /\ result = Result(Ok, <<Innermost(StageIds[2]), "supply">>)

----------------------------------------------------------------------------
(***************************************************************************)
(* Properties of the step reference generator.                              *)
(***************************************************************************)

WithinLimitMargin(v) == _limit_margin[1] <= v /\ v <= _limit_margin[2]

C9_ReferenceStableWithinSegment ==
    [][/\ (rg_call' = "get_reference"
             /\ rg_call \in {"reset", "get_reference_observation", "get_reference"})
            => (rg_result' = rg_result /\ _reference' = _reference /\ _k' = _k)
       /\ (rg_call' = "get_reference_observation" /\ _k < _current_episode_length
             /\ _k' # _k)
            => (_reference' = _reference /\ rg_result' = _reference[_k + 1])
       /\ _reference' # _reference
            => (rg_call' = "reset"
                \/ (rg_call' = "get_reference_observation"
                    /\ _k >= _current_episode_length))
      ]_vars

\* The reference was queried after a step inside a segment of two levels.
C9_Witness ==
    /\ rg_call = "get_reference"
    /\ _k = 2
    /\ _current_episode_length = MaxSegmentLength
    /\ _reference[1] # _reference[2]
    /\ rg_result = _reference[2]

(***************************************************************************)
(* Properties of the environments.                                          *)
(***************************************************************************)

\* A limited current of the state is beyond its limit.
Exceeds(state) == \E n \in LimitedCurrents(env_kind) : Abs(state[n]) > One

\* C10: step() reports terminated = true on the first step of the episode
\* at which the magnitude of a limited quantity exceeds 1.0 and terminated =
\* false on every earlier step; the violation arrives in the step result of
\* a normal return, not as an exception.
C10_TerminatedOnFirstViolation ==
    /\ \A i \in 1..Len(env_episode) :
          /\ (\A j \in 1..i : ~Exceeds(env_episode[j][1]))
                => env_episode[i][2] = FALSE
          /\ (Exceeds(env_episode[i][1])
               /\ \A j \in 1..(i - 1) : ~Exceeds(env_episode[j][1]))
                => env_episode[i][2] = TRUE
    /\ (Len(env_episode) > 0 /\ Exceeds(env_episode[Len(env_episode)][1]))
          => (env_result.status = Ok /\ env_result.terminated = TRUE)

\* The excitation current alone leaves its limit at the last step of an
\* episode in which the armature current sat exactly on its limit before.
C10_Witness ==
    /\ env_kind = "FiniteSpeedControlDcExternallyExcitedMotorEnv"
    /\ Len(env_episode) = MaxEpisodeSteps
    /\ env_episode[1][1]["i_a"] = One
    /\ \A j \in 1..(MaxEpisodeSteps - 1) : ~Exceeds(env_episode[j][1])
    /\ env_episode[MaxEpisodeSteps][1]["i_e"] = -(One + 1)
    /\ Abs(env_episode[MaxEpisodeSteps][1]["i_a"]) <= One
    /\ env_result.terminated = TRUE
    /\ env_phase = "READY"

(***************************************************************************)
(* Properties of the constructors.                                          *)
(***************************************************************************)

C15_ExtExDefaultsAsDocumented ==
    (made_env \in ExtExEnvs /\ env_args["motor"] = Unset
     /\ env_args["converter"] = Unset) =>
        /\ components["motor"].type = DocumentedMotor(made_env)
        /\ components["converter"].type = DocumentedConverter(made_env)
        /\ <<"subconverters", "default_subconverters">> \in components["converter"].args
        /\ Len(DefaultSubconverters(made_env)) = Len(DocumentedSubconverters(made_env))
        /\ \A i \in 1..Len(DefaultSubconverters(made_env)) :
              DefaultSubconverters(made_env)[i]
                = <<DocumentedSubconverters(made_env)[i], "instance">>

(***************************************************************************)
(* Properties of the step loop.                                             *)
(***************************************************************************)

\* C11: a step whose action is not a member of the action space is reported
\* as an error and has no side effect: the state of the physical system, its
\* step counter (the simulation time), the step index of the reference and
\* every random generator are the same after the step as before it.
C11_RejectedStepHasNoSideEffect ==
    [][(env_call'[1] = "step" /\ env_call'[2] \notin EnvActionSpace(env_kind))
        => /\ env_result'.status = AssertionError
           /\ env_state' = env_state
           /\ env_k' = env_k
           /\ env_ref_k' = env_ref_k
           /\ env_episode' = env_episode
           /\ env_phase' = env_phase
           /\ env_generator' = env_generator
           /\ _random_generator' = _random_generator
           /\ _seed_sequence' = _seed_sequence
           /\ _k' = _k
           /\ draws' = draws
      ]_vars

\* A step is refused in the middle of an episode that has moved the state.
C11_Witness ==
    /\ env_call = <<"step", 8>>
    /\ env_result.status = AssertionError
    /\ env_k = 2
    /\ env_ref_k = 2
    /\ env_state["omega"] = One
    /\ env_phase = "EPISODE_ACTIVE"

\* Some limit of the environment is violated by the state: a limited
\* current is beyond its limit, or the squares of the two currents of the
\* combined constraint sum to more than the squared limit.
LimitsViolated(state) ==
    \/ Exceeds(state)
    \/ /\ env_kind = ScimEnv
       /\ state["i_sq"] * state["i_sq"] + state["i_sd"] * state["i_sd"] > One * One

\* C19: in every step result terminated is true exactly when some constraint
\* is violated by the new state, truncated is true only when the configured
\* episode length is reached without a violation, and the two are never both
\* true.
C19_TerminatedXorTruncated ==
    (env_call[1] = "step" /\ env_result.status = Ok) =>
        /\ env_result.terminated = LimitsViolated(env_result.state)
        /\ env_result.truncated =>
              (env_k = MaxEpisodeSteps /\ ~LimitsViolated(env_result.state))
        /\ ~(env_result.terminated /\ env_result.truncated)

\* The combined constraint ends an episode in which each of the two
\* currents is within its own limit.
C19_Witness ==
    /\ env_kind = ScimEnv
    /\ env_call[1] = "step"
    /\ env_result.status = Ok
    /\ env_result.terminated
    /\ ~env_result.truncated
    /\ env_result.state["i_sq"] = One
    /\ env_result.state["i_sd"] = One
    /\ env_k = MaxEpisodeSteps

(***************************************************************************)
(* Properties of the processor chain: validation and rejection.             *)
(***************************************************************************)

\* C12: simulate(action) on a stage checks that the action is a member of
\* the stage's own action_space before it delegates: an action outside it is
\* refused and never handed to the inner layer.
C12_StageValidatesAction ==
    \A i \in 1..Len(events) :
        (/\ events[i][1] = "simulate"
         /\ events[i][2] \in Stages
         /\ Innermost(events[i][2]) # None
         /\ ~Contains(action_space(events[i][2]), events[i][3]))
        => (i = Len(events) /\ result.status # Ok)

\* A caller declares a space of a stage with the setter; the space is other
\* than that of the layer l.
DeclaredMismatch(s, l) ==
    \/ _state_space[s] \in SpaceValues \ {None} /\ _state_space[s] # state_space(l)
    \/ _action_space[s] \in SpaceValues \ {None} /\ _action_space[s] # action_space(l)

\* C14: attaching a stage whose declared space does not match the space of
\* its inner layer fails with a ConfigurationError and leaves nothing
\* attached: inner reference, cached names, positions and tau are as before.
C14_MismatchedAttachRejected ==
    [][\A s \in Stages, l \in Layers :
          (events' = << <<"set_physical_system", s, l>> >> /\ DeclaredMismatch(s, l))
          => /\ result'.status = "ConfigurationError"
             /\ _physical_system' = _physical_system
             /\ _state_names' = _state_names
             /\ _state_positions' = _state_positions
             /\ _tau' = _tau
      ]_vars

\* C16: once simulate or reset has been called on an attached stage, a
\* further set_physical_system on it is rejected and leaves its inner
\* reference, cached action space, state names, positions and tau unchanged.
C16_ReattachAfterUseRejected ==
    [][\A s \in Stages, l \in Layers :
          (/\ events' = << <<"set_physical_system", s, l>> >>
           /\ Attached(s)
           /\ IsCall(events, "simulate", s) \/ IsCall(events, "reset", s))
          => /\ result'.status # Ok
             /\ _physical_system' = _physical_system
             /\ _action_space' = _action_space
             /\ _state_names' = _state_names
             /\ _state_positions' = _state_positions
             /\ _tau' = _tau
      ]_vars

\* C17: no layer is the inner reference of two stages at the same time, so
\* every configuration is a linear chain.
C17_SingleOwnerOfInnerLayer ==
    \A s, t \in Stages :
        (s # t /\ _physical_system[s] # None)
        => _physical_system[s] # _physical_system[t]

\* C18: seed(value) on a stage right after reset() rotated its generator is
\* rejected with a RandomnessConsistencyError and reaches no layer of the
\* chain, so that no generator changes.
C18_ReseedAfterResetRejected ==
    [][\A s \in Stages :
          (IsCall(events', "seed", s) /\ IsCall(events, "reset", s) /\ Attached(s))
          => /\ result'.status = "RandomnessConsistencyError"
             /\ Len(events') = 1
             /\ _random_generator' = _random_generator
             /\ _seed_sequence' = _seed_sequence
      ]_vars

(***************************************************************************)
(* Scenario 1 of the step reference generator.                              *)
(***************************************************************************)

\* The duty ratio drawn for the stored segment, in 1/RatioDen.
DrawnRatio == draws[5][2]

ScenarioSegmentStored ==
    rg_bound /\ Len(_reference) = ScenarioLength /\ Len(draws) = 6

\* C20 (as stated): in scenario 1 the segment is a square wave scaled by the
\* drawn amplitude whose sign alternates at the drawn duty cycle - for a
\* duty ratio strictly between 0 and 1 and a positive amplitude both levels
\* offset - amplitude and offset + amplitude occur - and all values lie in
\* [-1, 1].
C20_ScenarioWaveAlternates ==
    (ScenarioSegmentStored /\ _amplitude > 0
     /\ 0 < DrawnRatio /\ DrawnRatio < RatioDen) =>
        /\ \A i \in 1..ScenarioLength :
              /\ -One <= _reference[i] /\ _reference[i] <= One
              /\ _reference[i] \in {_offset - _amplitude, _offset + _amplitude}
        /\ \E i \in 1..ScenarioLength : _reference[i] = _offset - _amplitude
        /\ \E i \in 1..ScenarioLength : _reference[i] = _offset + _amplitude

\* C20 (amended): in scenario 1 all values of the segment lie in [-1, 1] and
\* each is offset - amplitude, offset or offset + amplitude; the
\* ScenarioLength samples span only (ScenarioLength - 1) * tau of the period
\* of 1 / frequency, so for every duty ratio above that fraction the segment
\* is constant at offset - amplitude and the sign does not alternate.
C20_ScenarioSegmentWithinOnePeriod ==
    ScenarioSegmentStored =>
        /\ \A i \in 1..ScenarioLength :
              /\ -One <= _reference[i] /\ _reference[i] <= One
              /\ _reference[i] \in {_offset - _amplitude, _offset,
                                     _offset + _amplitude}
        /\ (DrawnRatio * TauDen > (ScenarioLength - 1) * _frequency * RatioDen)
              => \A i \in 1..ScenarioLength : _reference[i] = _offset - _amplitude

\* A segment of full amplitude and a duty ratio near 1/2 that stays at -1.
C20_Witness ==
    /\ ScenarioSegmentStored
    /\ _limit_margin = <<-One, One>>
    /\ _amplitude = One
    /\ _frequency = 1
    /\ DrawnRatio = 4
    /\ \A i \in 1..ScenarioLength : _reference[i] = -One

----------------------------------------------------------------------------
(***************************************************************************)
(* Properties of the time and the state names of the processor chain.      *)
(***************************************************************************)

\* C27: every simulate(action) call that a stage over a physical system
\* completes advances the stage's own step counter by exactly one step (its
\* time by tau), the stage runs on the step duration of the physical system,
\* and a stage whose time agreed with the time of the physical system before
\* the call agrees with it after the call: after reset() and n simulate calls
\* the time at the chain head is n * tau, the time of the physical system.
C27_SimulateAdvancesStageTime ==
    [][\A s \in Stages :
         (IsCall(events', "simulate", s) /\ result'.status = Ok) =>
            /\ k_of(s)' = k_of(s) + 1
            /\ tau(s) = tau(Innermost(s))
            /\ (k_of(s) = k_of(Innermost(s)) =>
                    k_of(s)' = k_of(Innermost(s))')
      ]_vars

\* C28: the cached name-to-index mapping of an attached stage agrees with
\* the state names the stage reports: it has exactly one entry per state
\* name and maps the name at index i to i (counted from 0), at every stage
\* of a chain and after any sequence of seed, reset and simulate calls.
C28_StatePositionsAgreeWithNames ==
    \A s \in Stages : Attached(s) =>
        LET names == state_names(s)
            mapping == _state_positions[s]
        IN
        /\ Len(names) > 0
        /\ DOMAIN mapping = {names[i] : i \in 1..Len(names)}
        /\ Cardinality(DOMAIN mapping) = Len(names)
        /\ \A i \in 1..Len(names) : mapping[names[i]] = i - 1

\* The head of a chain of two stages over the induction motor system was
\* reset and simulated; both stages hold the mapping of its 14 state names.
C28_Witness ==
    /\ IsCall(events, "simulate", StageIds[2])
    /\ result.status = Ok
    /\ Len(Path(StageIds[2])) = 3
    /\ Innermost(StageIds[2]) = "SquirrelCageInductionMotorSystem"
    /\ _seed_sequence[StageIds[2]].spawned > 0
    /\ \A s \in StagesOf(StageIds[2]) :
          /\ Cardinality(DOMAIN _state_positions[s]) = 14
          /\ _state_positions[s]["u_sup"] = 13
          /\ _state_positions[s]["omega"] = 0

----------------------------------------------------------------------------
(***************************************************************************)
(* Properties of the segment generation of the step reference generator.   *)
(***************************************************************************)

\* The values drawn for the stored segment (see draws).
DrawnLength == draws[1][2]
DrawnFrequency == draws[3][2]
DrawnPhase == draws[6][2]

\* A segment has been generated by the bound generator.
SegmentStored == rg_bound /\ Len(draws) = 6

LimitSpan == _limit_margin[2] - _limit_margin[1]

\* The square wave of the stored segment before and after the phase shift.
UnshiftedWave == Wave(DrawnLength, DrawnFrequency, DrawnRatio)
DrawnWave == Roll(UnshiftedWave, PhaseShift(DrawnFrequency, DrawnPhase))

\* Number of samples of x that equal v.
Count(x, v) == Cardinality({i \in 1..Len(x) : x[i] = v})

\* Python's round(num / den) for num >= 0, den > 0 (ties go to the even
\* neighbour).
RoundHalfEven(num, den) ==
    LET q == num \div den
        r == num % den
    IN IF 2 * r < den THEN q
       ELSE IF 2 * r > den THEN q + 1
       ELSE IF q % 2 = 0 THEN q ELSE q + 1

\* C21: once the generator is bound to a physical system, the amplitude of
\* every generated segment is the drawn one and satisfies
\* 0 <= amplitude <= (limit_margin[1] - limit_margin[0]) / 2, whatever
\* amplitude_range was configured, the unset default (0, inf) included.
C21_AmplitudeWithinHalfSpan ==
    SegmentStored =>
        /\ _amplitude = draws[2][2]
        /\ 0 <= _amplitude
        /\ 2 * _amplitude <= LimitSpan

\* A generator constructed without an amplitude range, bound to a state with
\* the margin (0, 1), drew the largest amplitude there is: half the span.
C21_Witness ==
    /\ SegmentStored
    /\ _limit_margin = <<0, One>>
    /\ _amplitude_range[1] = 0
    /\ _amplitude > 0
    /\ 2 * _amplitude = LimitSpan

\* C22: for every generated segment limit_margin[0] <= offset - amplitude and
\* offset + amplitude <= limit_margin[1], and the range the offset is drawn
\* from has its lower bound at or below its upper bound, also when the
\* amplitude is half the limit span.
C22_OffsetKeepsLevelsWithinMargin ==
    SegmentStored =>
        /\ _offset = draws[4][2]
        /\ _limit_margin[1] <= _offset - _amplitude
        /\ _offset + _amplitude <= _limit_margin[2]
        /\ OffsetDrawRange(_amplitude)[1] <= OffsetDrawRange(_amplitude)[2]

\* The amplitude is half the span of (-1, 1): the offset range has shrunk to
\* the one point in the middle, and the offset is that point.
C22_Witness ==
    /\ SegmentStored
    /\ _limit_margin = <<-One, One>>
    /\ 2 * _amplitude = LimitSpan
    /\ OffsetDrawRange(_amplitude) = <<0, 0>>
    /\ _offset = 0
    /\ \E i \in 1..Len(_reference) : _reference[i] = -One

\* C23: a sample whose phase position frequency * (t mod 1 / frequency)
\* equals the drawn duty ratio exactly takes the value +1, so every sample of
\* the unscaled wave is -1 or +1 and every sample amplitude * x + offset is
\* offset - amplitude or offset + amplitude.
C23_CrossingSampleIsHigh ==
    SegmentStored =>
        /\ \A i \in 1..DrawnLength :
              /\ UnshiftedWave[i] \in {-1, 1}
              /\ (((i - 1) * DrawnFrequency) % TauDen) * RatioDen
                    = DrawnRatio * TauDen => UnshiftedWave[i] = 1
        /\ \A i \in 1..DrawnLength :
              _amplitude * DrawnWave[i] + _offset
                  \in {_offset - _amplitude, _offset + _amplitude}

\* C24: the stored segment is the square wave shifted circularly by
\* round(phase / frequency / tau) samples, rounded to the nearest integer.
C24_ShiftRoundsToNearest ==
    SegmentStored =>
        _reference =
            Reference(Roll(UnshiftedWave,
                           RoundHalfEven(TauDen * DrawnPhase,
                                         DrawnFrequency * PhaseDen)),
                      _amplitude, _offset, _limit_margin)

\* C25: the segment is reproduced exactly by recomputing the formula from
\* the parameters the generator has stored: the fields hold the amplitude,
\* the frequency and the offset only, so the recomputation has to give the
\* stored segment for whatever duty ratio and phase it is done with.
C25_SegmentReproducibleFromStoredParameters ==
    SegmentStored =>
        \A ratio \in RatioValues, phase \in PhaseValues :
            _reference =
                Reference(Roll(Wave(_current_episode_length, _frequency, ratio),
                               PhaseShift(_frequency, phase)),
                          _amplitude, _offset, _limit_margin)

\* A step of the generator that generates a segment: reset(), or
\* get_reference_observation() when the current segment is used up.
GeneratesSegment ==
    \/ rg_call' = "reset"
    \/ rg_call' = "get_reference_observation" /\ _k >= _current_episode_length

\* C26: a segment generation (on reset() and on a step after the segment is
\* used up) draws, after the segment length, the amplitude, the frequency,
\* the offset, the duty ratio and the phase in this order, and stores the
\* amplitude, frequency and offset just drawn and a segment of the drawn
\* length; every other step leaves these parameters, the draws and the
\* stored reference as they are.
C26_FreshDrawsInOrderPerSegment ==
    [][/\ GeneratesSegment =>
            /\ Len(draws') = 6
            /\ [i \in 1..6 |-> draws'[i][1]] =
                  <<"length", "amplitude", "frequency", "offset",
                    "high_low_ratio", "phase">>
            /\ _current_episode_length' = draws'[1][2]
            /\ _amplitude' = draws'[2][2]
            /\ _frequency' = draws'[3][2]
            /\ _offset' = draws'[4][2]
            /\ Len(_reference') = draws'[1][2]
            /\ _k' = 1
       /\ ~GeneratesSegment =>
            UNCHANGED <<_amplitude, _frequency, _offset, _reference, draws,
                        _current_episode_length>>
      ]_vars

\* A segment was used up and the next step generated a new one, of two
\* levels, with a positive amplitude.
C26_Witness ==
    /\ SegmentStored
    /\ rg_call = "get_reference_observation"
    /\ _k = 1
    /\ _amplitude = draws[2][2] /\ _amplitude > 0
    /\ DrawnLength = MaxSegmentLength
    /\ \E i, j \in 1..Len(_reference) : _reference[i] # _reference[j]

\* C29: a generated segment holds exactly current-segment-length samples,
\* one per step of the time grid 0, tau, 2 tau, ..., and the circular phase
\* shift only permutes them: each level occurs as often after the shift as
\* before it, in the unscaled wave and in the stored reference.
C29_SegmentLengthAndShiftPermutes ==
    SegmentStored =>
        /\ Len(_reference) = _current_episode_length
        /\ _current_episode_length = DrawnLength
        /\ Len(UnshiftedWave) = DrawnLength
        /\ \A v \in {-1, 0, 1} : Count(DrawnWave, v) = Count(UnshiftedWave, v)
        /\ \A i \in 1..Len(_reference) :
              Count(_reference, _reference[i]) =
                  Count(Reference(UnshiftedWave, _amplitude, _offset, _limit_margin),
                        _reference[i])

\* A segment of two levels was shifted by a number of samples that is not a
\* multiple of its length, which changed the sequence.
C29_Witness ==
    /\ SegmentStored
    /\ DrawnLength = MaxSegmentLength
    /\ PhaseShift(DrawnFrequency, DrawnPhase) % DrawnLength # 0
    /\ DrawnWave # UnshiftedWave
    /\ _amplitude > 0
    /\ Count(_reference, _offset + _amplitude) > 0
    /\ Count(_reference, _offset - _amplitude) > 0

\* C30: the final clip to the limit margin changes no value: for every
\* generated segment amplitude * x + offset lies within
\* [limit_margin[0], limit_margin[1]] at every sample, and the stored
\* reference is this unclipped wave.
C30_FinalClipChangesNothing ==
    SegmentStored =>
        /\ Len(_reference) = Len(DrawnWave)
        /\ \A i \in 1..Len(_reference) :
              /\ WithinLimitMargin(_amplitude * DrawnWave[i] + _offset)
              /\ _reference[i] = _amplitude * DrawnWave[i] + _offset

\* Both levels of a segment lie on the bounds of the margin (the amplitude is
\* half the span) and the stored samples are the unclipped ones.
C30_Witness ==
    /\ SegmentStored
    /\ 2 * _amplitude = LimitSpan /\ _amplitude > 0
    /\ \E i, j \in 1..Len(_reference) :
          /\ _amplitude * DrawnWave[i] + _offset = _limit_margin[1]
          /\ _amplitude * DrawnWave[j] + _offset = _limit_margin[2]
          /\ _reference[i] = _limit_margin[1]
          /\ _reference[j] = _limit_margin[2]
====
